---- MODULE Spec2Model ----
(***************************************************************************)
(* Model of ichat_recovery_ui.py: the attachment sniffer, the session      *)
(* extractor, the grouping / merging loop of start_processing and the      *)
(* HTML renderer write_html_file.                                          *)
(***************************************************************************)
EXTENDS Integers, Sequences, FiniteSets, TLC

VARIABLES
    listing,          \* the names in the source directory, in the order the OS lists them
    pc,               \* position of start_processing
    user_files,       \* the insertion-ordered dict username -> files, as a sequence of pairs
    ui,               \* index of the participant being processed
    fi,               \* index of the next file of that participant
    conv,             \* conv[i]: the list object all_messages_for_user of participant i
    handed,           \* the calls of write_html_file made so far: username, message list, file opened
    fs,               \* the output directory: save path -> document written
    log,              \* the lines given to log_message
    processed_count,  \* progress counter
    data_blob,        \* sniffer input (NS.data of one attribute)
    embedded,         \* sniffer output: the image elements embedded for data_blob
    render_in,        \* renderer input: username and message list
    archives          \* the kind of archives in the directory: "any" or "few"

vars == <<listing, pc, user_files, ui, fi, conv, handed, fs, log,
          processed_count, data_blob, embedded, render_in, archives>>

(***************************************************************************)
(* Bounds                                                                  *)
(***************************************************************************)
MaxChunks == 3       \* chunks concatenated into a sniffer blob
MaxFiles == 2        \* files in the directory listing
MaxMsgs == 2         \* message records in one decoded archive
MaxRenderMsgs == 2   \* messages handed to the renderer on its own
MaxOrderMsgs == 1    \* message records in one decoded archive, in SpecOrder

(***************************************************************************)
(* Python runtime values: every value carries its runtime variant in t.    *)
(***************************************************************************)
PyNone == [t |-> "none"]
PyStr(s) == [t |-> "str", s |-> s]
PyBytes(b) == [t |-> "bytes", b |-> b]
PyInt(n) == [t |-> "int", n |-> n]
PyDatetime(n) == [t |-> "datetime", n |-> n]
PyDict(d) == [t |-> "dict", d |-> d]
PyList(l) == [t |-> "list", l |-> l]
EmptyDict == PyDict(<<>>)

\* isinstance(v, cls)
IsInstance(v, cls) == v.t = cls

\* bool(v)
Truthy(v) ==
    CASE v.t = "none" -> FALSE
      [] v.t = "str" -> v.s # <<>>
      [] v.t = "bytes" -> v.b # <<>>
      [] v.t = "int" -> v.n # 0
      [] v.t = "dict" -> DOMAIN v.d # {}
      [] v.t = "list" -> v.l # <<>>
      [] OTHER -> TRUE

\* only a dict has the method get; on any other variant v.get raises AttributeError
HasGet(v) == v.t = "dict"

\* dict.get(key, default)
Get(v, key, default) == IF key \in DOMAIN v.d THEN v.d[key] ELSE default

(***************************************************************************)
(* Attachment sniffer                                                      *)
(***************************************************************************)
JPG_SIG == <<255, 216, 255>>
PNG_SIG == <<137, 80, 78, 71, 13, 10, 26, 10>>
GIF_SIG == <<71, 73, 70, 56>>

\* the dict IMAGE_SIGNATURES in insertion order
IMAGE_SIGNATURES ==
    << [ext |-> ".jpg", signature |-> JPG_SIG],
       [ext |-> ".png", signature |-> PNG_SIG],
       [ext |-> ".gif", signature |-> GIF_SIG] >>

Min(S) == CHOOSE m \in S : \A n \in S : m <= n

\* bytes.startswith(prefix)
StartsWith(b, prefix) ==
    Len(b) >= Len(prefix) /\ SubSeq(b, 1, Len(prefix)) = prefix

\* bytes.find(sub): lowest 0-based index of sub in b, -1 if there is none
Find(b, sub) ==
    LET hits == {i \in 0..(Len(b) - Len(sub)) : SubSeq(b, i + 1, i + Len(sub)) = sub}
    IN IF hits = {} THEN -1 ELSE Min(hits)

\* b[start:]
SliceFrom(b, start) == SubSeq(b, start + 1, Len(b))

RECURSIVE FindFrom(_, _)
\* the for loop of find_and_extract_image from registry entry k on
FindFrom(blob, k) ==
    IF k > Len(IMAGE_SIGNATURES) THEN PyNone
    ELSE LET start_index == Find(blob, IMAGE_SIGNATURES[k].signature)
         IN IF start_index # -1
            THEN PyBytes(SliceFrom(blob, start_index))
            ELSE FindFrom(blob, k + 1)

find_and_extract_image(blob) == FindFrom(blob, 1)

get_mime_type_from_bytes(data_bytes) ==
    IF StartsWith(data_bytes, JPG_SIG) THEN "image/jpeg"
    ELSE IF StartsWith(data_bytes, PNG_SIG) THEN "image/png"
    ELSE IF StartsWith(data_bytes, GIF_SIG) THEN "image/gif"
    ELSE "application/octet-stream"

\* the sniffer as write_html_file calls it on one NS.data value: the
\* attachments recovered from it (none or one), each with its mime type
SniffImage(blob) ==
    IF Truthy(blob) /\ IsInstance(blob, "bytes")
    THEN LET img_bytes == find_and_extract_image(blob.b)
         IN IF Truthy(img_bytes)
            THEN << [bytes |-> img_bytes.b,
                     mime_type |-> get_mime_type_from_bytes(img_bytes.b)] >>
            ELSE <<>>
    ELSE <<>>

(***************************************************************************)
(* Text helpers.  A str is a sequence of one-character strings.            *)
(***************************************************************************)
OBJECT_REPLACEMENT == "U+FFFC"      \* the character '￼'
Whitespace == {" ", "\t", "\n", "\r"}

RECURSIVE Flatten(_)
Flatten(ss) == IF ss = <<>> THEN <<>> ELSE Head(ss) \o Flatten(Tail(ss))

\* html.escape of one character (quote=True)
EscapeChar(c) ==
    CASE c = "&" -> <<"&", "a", "m", "p", ";">>
      [] c = "<" -> <<"&", "l", "t", ";">>
      [] c = ">" -> <<"&", "g", "t", ";">>
      [] c = "\"" -> <<"&", "q", "u", "o", "t", ";">>
      [] c = "'" -> <<"&", "#", "x", "2", "7", ";">>
      [] OTHER -> <<c>>

\* html.escape(s)
HtmlEscape(s) == Flatten([i \in 1..Len(s) |-> EscapeChar(s[i])])

\* s.replace('￼', '')
StripPlaceholder(s) == SelectSeq(s, LAMBDA c : c # OBJECT_REPLACEMENT)

\* bool(s.strip())
NonBlank(s) == \E i \in 1..Len(s) : s[i] \notin Whitespace

IllegalChars == {"\\", "/", "*", "?", ":", "\"", "<", ">", "|"}

\* re.sub(r'[\\/*?:"<>|]', "_", filename)
sanitize_filename(filename) ==
    [i \in 1..Len(filename) |-> IF filename[i] \in IllegalChars THEN "_" ELSE filename[i]]

\* base64.b64encode(b): the sextets of the 3-byte groups; 64 stands for the pad '='
B64Group(g) ==
    LET n == Len(g)
        b1 == g[1]
        b2 == IF n >= 2 THEN g[2] ELSE 0
        b3 == IF n >= 3 THEN g[3] ELSE 0
    IN << b1 \div 4,
          (b1 % 4) * 16 + (b2 \div 16),
          IF n >= 2 THEN (b2 % 16) * 4 + (b3 \div 64) ELSE 64,
          IF n >= 3 THEN b3 % 64 ELSE 64 >>

RECURSIVE B64Encode(_)
B64Encode(b) ==
    IF b = <<>> THEN <<>>
    ELSE IF Len(b) <= 3 THEN B64Group(b)
    ELSE B64Group(SubSeq(b, 1, 3)) \o B64Encode(SubSeq(b, 4, Len(b)))

UNKNOWN == <<"U", "n", "k", "n", "o", "w", "n">>
UNKNOWN_SENDER == UNKNOWN \o <<" ", "S", "e", "n", "d", "e", "r">>
NO_TIMESTAMP == <<"N", "o", " ", "T", "i", "m", "e", "s", "t", "a", "m", "p">>
DOT_HTML == <<".", "h", "t", "m", "l">>

Digits == <<"0", "1", "2", "3", "4", "5", "6", "7", "8", "9">>

\* timestamp_obj.strftime('%Y-%m-%d %I:%M:%S %p'); the instant n is midnight
\* of day n of January 2000, datetime.min is instant 0
Strftime(n) ==
    IF n = 0
    THEN <<"1", "-", "0", "1", "-", "0", "1", " ", "1", "2", ":", "0", "0", ":", "0", "0", " ", "A", "M">>
    ELSE <<"2", "0", "0", "0", "-", "0", "1", "-", Digits[(n \div 10) + 1], Digits[(n % 10) + 1],
           " ", "1", "2", ":", "0", "0", ":", "0", "0", " ", "A", "M">>

(***************************************************************************)
(* Document renderer: write_html_file.  A document is the sequence of the  *)
(* f.write calls that reached the file.                                    *)
(***************************************************************************)
Raised(writes) == [ok |-> FALSE, writes |-> writes]
Returned(writes) == [ok |-> TRUE, writes |-> writes]

\* <img src="data:{mime_type};base64,{b64_string}">
ImgElement(a) == [w |-> "img", mime_type |-> a.mime_type, b64 |-> B64Encode(a.bytes)]

RECURSIVE RenderAttrs(_)
\* lines 222-233: the loop over attributes_list; stops at the first exception
RenderAttrs(attributes_list) ==
    IF attributes_list = <<>> THEN Returned(<<>>)
    ELSE LET attr == Head(attributes_list)
         IN IF ~HasGet(attr) THEN Raised(<<>>)
            ELSE LET a1 == Get(attr, "NSAttachment", EmptyDict)
                 IN IF ~HasGet(a1) THEN Raised(<<>>)
                    ELSE LET a2 == Get(a1, "NSFileWrapper", EmptyDict)
                         IN IF ~HasGet(a2) THEN Raised(<<>>)
                            ELSE LET a3 == Get(a2, "NSFileWrapperData", EmptyDict)
                                 IN IF ~HasGet(a3) THEN Raised(<<>>)
                                    ELSE LET blob == Get(a3, "NS.data", PyNone)
                                             imgs == [i \in 1..Len(SniffImage(blob)) |->
                                                         ImgElement(SniffImage(blob)[i])]
                                             rest == RenderAttrs(Tail(attributes_list))
                                         IN [ok |-> rest.ok, writes |-> imgs \o rest.writes]

\* lines 203-233: the content of one message, after '<div class="content">'
RenderContent(msg) ==
    LET content_obj == Get(msg, "MessageText", PyNone)
    IN IF ~Truthy(content_obj) THEN Returned(<<>>)
       ELSE IF ~HasGet(content_obj) THEN Raised(<<>>)
       ELSE LET ns == Get(content_obj, "NSString", PyStr(<<>>))
            IN IF ~IsInstance(ns, "str") THEN Raised(<<>>)
               ELSE LET text == StripPlaceholder(ns.s)
                        para == IF NonBlank(text)
                                THEN << [w |-> "p", text |-> HtmlEscape(text)] >>
                                ELSE <<>>
                        attributes == Get(content_obj, "NSAttributes", PyList(<<>>))
                        attributes_list ==
                            IF IsInstance(attributes, "dict") THEN <<attributes>>
                            ELSE IF IsInstance(attributes, "list") THEN attributes.l
                            ELSE <<>>
                        imgs == RenderAttrs(attributes_list)
                    IN [ok |-> imgs.ok, writes |-> para \o imgs.writes]

\* lines 185-235: the body of the loop over sorted_messages for one message
RenderMsg(msg) ==
    IF ~HasGet(msg) THEN Raised(<<>>)
    ELSE LET sender_obj == Get(msg, "Sender", PyNone)
             sender_name == IF IsInstance(sender_obj, "dict")
                            THEN Get(sender_obj, "ID", PyStr(UNKNOWN_SENDER))
                            ELSE PyStr(UNKNOWN)
             timestamp_obj == Get(msg, "Time", PyNone)
             time_str == IF IsInstance(timestamp_obj, "datetime")
                         THEN Strftime(timestamp_obj.n)
                         ELSE NO_TIMESTAMP
             opened == << [w |-> "message"] >>
         IN IF ~IsInstance(sender_name, "str") THEN Raised(opened)
            ELSE LET head == opened \o
                             << [w |-> "header", sender |-> HtmlEscape(sender_name.s),
                                 time_str |-> time_str],
                                [w |-> "content"] >>
                     content == RenderContent(msg)
                 IN IF content.ok
                    THEN Returned(head \o content.writes \o << [w |-> "end"] >>)
                    ELSE Raised(head \o content.writes)

RECURSIVE RenderMsgs(_)
\* line 184: for msg in sorted_messages, until an exception leaves the loop
RenderMsgs(msgs) ==
    IF msgs = <<>> THEN Returned(<<>>)
    ELSE LET first == RenderMsg(Head(msgs))
         IN IF ~first.ok THEN first
            ELSE LET rest == RenderMsgs(Tail(msgs))
                 IN [ok |-> rest.ok, writes |-> first.writes \o rest.writes]

\* os.path.join(output_dir, f"{sanitize_filename(username)}.html"), inside output_dir
SavePath(username) == sanitize_filename(username) \o DOT_HTML

LogLine(line, about) == [line |-> line, about |-> about]

\* write_html_file(username, sorted_messages, output_dir, logger_func); open_ok
\* tells whether open(save_path, "w") succeeds.  Gives the file written (if
\* any) and the lines logged.
write_html_file(username, sorted_messages, open_ok) ==
    LET save_path == SavePath(username)
        body == RenderMsgs(sorted_messages)
        preamble == << [w |-> "preamble", title |-> HtmlEscape(username)] >>
        rendering == << LogLine("Rendering HTML", username) >>
    IN IF ~open_ok
       THEN [written |-> FALSE, path |-> save_path, doc |-> <<>>,
             logs |-> rendering \o << LogLine("FAILED to write HTML", save_path),
                                      LogLine("traceback", save_path) >>]
       ELSE IF ~body.ok
       THEN [written |-> TRUE, path |-> save_path, doc |-> preamble \o body.writes,
             logs |-> rendering \o << LogLine("FAILED to write HTML", save_path),
                                      LogLine("traceback", save_path) >>]
       ELSE [written |-> TRUE, path |-> save_path,
             doc |-> preamble \o body.writes \o << [w |-> "footer"] >>,
             logs |-> rendering \o << LogLine("Successfully saved", save_path) >>]

\* the output directory after a call of write_html_file with result r
FsAfter(files, r) ==
    IF r.written
    THEN [p \in DOMAIN files \cup {r.path} |-> IF p = r.path THEN r.doc ELSE files[p]]
    ELSE files

(***************************************************************************)
(* Session extractor: extract_messages_from_file                           *)
(***************************************************************************)
\* v[i] for an integer i: the value, or the exception Python raises.  The
\* keys of a decoded mapping are strings, so an integer key is a KeyError.
Subscript(v, i) ==
    CASE v.t = "list" ->
            IF i < Len(v.l) THEN [exc |-> "", val |-> v.l[i + 1]]
            ELSE [exc |-> "IndexError", val |-> PyNone]
      [] v.t = "str" ->
            IF i < Len(v.s) THEN [exc |-> "", val |-> PyStr(<<v.s[i + 1]>>)]
            ELSE [exc |-> "IndexError", val |-> PyNone]
      [] v.t = "bytes" ->
            IF i < Len(v.b) THEN [exc |-> "", val |-> PyInt(v.b[i + 1])]
            ELSE [exc |-> "IndexError", val |-> PyNone]
      [] v.t = "dict" -> [exc |-> "KeyError", val |-> PyNone]
      [] OTHER -> [exc |-> "TypeError", val |-> PyNone]

\* the result of deserialize_plist(fp) under the with open(...): an exception
\* or the decoded object tree
DecodeFailed == [raised |-> TRUE, objects |-> PyNone]
Decoded(objects) == [raised |-> FALSE, objects |-> objects]

\* extract_messages_from_file(file_path, logger_func) when the decoder gives
\* outcome: the list returned and the lines logged, or the exception that
\* leaves the function
extract_messages_from_file(file_path, outcome) ==
    LET reading == << LogLine("Reading", file_path) >>
    IN IF outcome.raised
       THEN [exc |-> "", messages |-> <<>>,
             logs |-> reading \o << LogLine("Error deserializing file", file_path) >>]
       ELSE LET o1 == Subscript(outcome.objects, 1)
                o2 == IF o1.exc = "" THEN Subscript(o1.val, 2) ELSE o1
            IN IF o2.exc \in {"IndexError", "TypeError"}
               THEN [exc |-> "", messages |-> <<>>,
                     logs |-> reading \o
                              << LogLine("Error: File structure not as expected", file_path) >>]
               ELSE IF o2.exc # ""
               THEN [exc |-> o2.exc, messages |-> <<>>, logs |-> reading]
               ELSE IF ~IsInstance(o2.val, "list")
               THEN [exc |-> "", messages |-> <<>>,
                     logs |-> reading \o
                              << LogLine("Error: Could not find messages list", file_path) >>]
               ELSE [exc |-> "", messages |-> o2.val.l, logs |-> reading]

(***************************************************************************)
(* list.sort(key=lambda m: m.get('Time') or datetime.min) as CPython runs  *)
(* it on a list shorter than 64: the keys are computed first, then         *)
(* count_run finds the leading run and binarysort inserts the rest.  An    *)
(* exception leaves the list as the sort had arranged it so far.           *)
(***************************************************************************)
DATETIME_MIN == PyDatetime(0)

\* code points of the characters that occur in compared strings
CodePoint(c) ==
    CASE c = "a" -> 97 [] c = "b" -> 98 [] c = "c" -> 99 [] OTHER -> 0

RECURSIVE LexLess(_, _)
\* s < t for two str
LexLess(s, t) ==
    IF t = <<>> THEN FALSE
    ELSE IF s = <<>> THEN TRUE
    ELSE IF CodePoint(Head(s)) # CodePoint(Head(t)) THEN CodePoint(Head(s)) < CodePoint(Head(t))
    ELSE LexLess(Tail(s), Tail(t))

\* a < b is defined (else TypeError); the keys are datetime, str or int values
LtDefined(a, b) == a.t = b.t /\ a.t \in {"datetime", "int", "str"}

\* a < b
Lt(a, b) ==
    CASE a.t = "datetime" -> a.n < b.n
      [] a.t = "int" -> a.n < b.n
      [] a.t = "str" -> LexLess(a.s, b.s)

\* the key function: lambda m: m.get('Time') or datetime.min
SortKey(m) ==
    LET time == Get(m, "Time", PyNone)
    IN IF Truthy(time) THEN time ELSE DATETIME_MIN

RECURSIVE RunEnd(_, _, _)
\* count_run's loop: i is the 1-based index of the next element compared
\* with its predecessor; gives the run length, or 0 when a comparison raises
RunEnd(ks, i, descending) ==
    IF i > Len(ks) THEN Len(ks)
    ELSE IF ~LtDefined(ks[i], ks[i - 1]) THEN 0
    ELSE IF Lt(ks[i], ks[i - 1]) = descending THEN RunEnd(ks, i + 1, descending)
    ELSE i - 1

\* count_run on a list of at least two keys
CountRun(ks) ==
    IF ~LtDefined(ks[2], ks[1]) THEN [n |-> 0, descending |-> FALSE]
    ELSE [n |-> RunEnd(ks, 3, Lt(ks[2], ks[1])), descending |-> Lt(ks[2], ks[1])]

RECURSIVE BinSearch(_, _, _, _)
\* binarysort's do-while: the 0-based insertion point of pivot in ks[l..r),
\* or -1 when a comparison raises
BinSearch(ks, pivot, l, r) ==
    LET p == l + ((r - l) \div 2)
    IN IF ~LtDefined(pivot, ks[p + 1]) THEN -1
       ELSE LET r2 == IF Lt(pivot, ks[p + 1]) THEN p ELSE r
                l2 == IF Lt(pivot, ks[p + 1]) THEN l ELSE p + 1
            IN IF l2 < r2 THEN BinSearch(ks, pivot, l2, r2) ELSE l2

RECURSIVE BinarySort(_, _)
\* binarysort(lo, hi, start) on the (key, item) pairs ps; start is 0-based
BinarySort(ps, start) ==
    IF start >= Len(ps) THEN [exc |-> "", ps |-> ps]
    ELSE LET pivot == ps[start + 1]
             l == BinSearch([i \in 1..Len(ps) |-> ps[i].key], pivot.key, 0, start)
         IN IF l = -1 THEN [exc |-> "TypeError", ps |-> ps]
            ELSE BinarySort(SubSeq(ps, 1, l) \o <<pivot>> \o SubSeq(ps, l + 1, start)
                                \o SubSeq(ps, start + 2, Len(ps)),
                            start + 1)

Reverse(s) == [i \in 1..Len(s) |-> s[Len(s) + 1 - i]]

\* all_messages_for_user.sort(key=...): the exception raised (if any) and the
\* list afterwards
ListSort(msgs) ==
    IF \E i \in 1..Len(msgs) : ~HasGet(msgs[i])
    THEN [exc |-> "AttributeError", list |-> msgs]
    ELSE IF Len(msgs) < 2 THEN [exc |-> "", list |-> msgs]
    ELSE LET ps == [i \in 1..Len(msgs) |-> [key |-> SortKey(msgs[i]), item |-> msgs[i]]]
             run == CountRun([i \in 1..Len(ps) |-> ps[i].key])
         IN IF run.n = 0 THEN [exc |-> "TypeError", list |-> msgs]
            ELSE LET ps1 == IF run.descending
                            THEN Reverse(SubSeq(ps, 1, run.n)) \o SubSeq(ps, run.n + 1, Len(ps))
                            ELSE ps
                     sorted == BinarySort(ps1, run.n)
                 IN [exc |-> sorted.exc,
                     list |-> [i \in 1..Len(msgs) |-> sorted.ps[i].item]]

(***************************************************************************)
(* Grouping: glob.glob and FILENAME_REGEX.  A file name is a sequence of   *)
(* one-character strings.                                                  *)
(***************************************************************************)
DigitChars == {"0", "1", "2", "3", "4", "5", "6", "7", "8", "9"}
DOT_ICHAT == <<".", "i", "c", "h", "a", "t">>

\* what follows the group in FILENAME_REGEX: " on \d{4}-\d{2}-\d{2} at \d{2}\.\d{2}\.ichat";
\* the token "\\d" is the class of digits, every other token is a literal
REGEX_TAIL ==
    <<" ", "o", "n", " ", "\\d", "\\d", "\\d", "\\d", "-", "\\d", "\\d", "-", "\\d", "\\d",
      " ", "a", "t", " ", "\\d", "\\d", ".", "\\d", "\\d">> \o DOT_ICHAT

\* t matches REGEX_TAIL up to $, which also matches before a final newline
TailMatches(t) ==
    /\ Len(t) \in {Len(REGEX_TAIL), Len(REGEX_TAIL) + 1}
    /\ \A i \in 1..Len(REGEX_TAIL) :
          IF REGEX_TAIL[i] = "\\d" THEN t[i] \in DigitChars ELSE t[i] = REGEX_TAIL[i]
    /\ Len(t) = Len(REGEX_TAIL) + 1 => t[Len(t)] = "\n"

\* FILENAME_REGEX with the group cut at the first " on ", as ^(.*?) on .* would cut it
FilenameMatch_FirstOn(filename) ==
    LET cuts == {k \in 0..Len(filename) :
                    /\ \A i \in 1..k : filename[i] # "\n"
                    /\ TailMatches(SubSeq(filename, k + 1, Len(filename)))}
    IN IF cuts = {} THEN [matched |-> FALSE, username |-> <<>>]
       ELSE [matched |-> TRUE,
             username |-> SubSeq(filename, 1, Find(filename, <<" ", "o", "n", " ">>))]

\* FILENAME_REGEX.match(filename): whether it matches and match.group(1), the
\* shortest prefix without a newline after which the tail matches
FilenameMatch(filename) ==
    LET cuts == {k \in 0..Len(filename) :
                    /\ \A i \in 1..k : filename[i] # "\n"
                    /\ TailMatches(SubSeq(filename, k + 1, Len(filename)))}
    IN IF cuts = {} THEN [matched |-> FALSE, username |-> <<>>]
       ELSE [matched |-> TRUE, username |-> SubSeq(filename, 1, Min(cuts))]

\* fnmatch of a name against '*.ichat' as glob applies it: a name that starts
\* with a dot is hidden from a pattern that does not
GlobMatches(name) ==
    /\ Len(name) >= Len(DOT_ICHAT)
    /\ SubSeq(name, Len(name) - Len(DOT_ICHAT) + 1, Len(name)) = DOT_ICHAT
    /\ name[1] # "."

\* glob.glob(os.path.join(source_directory, '*.ichat'))
Glob(names) == SelectSeq(names, GlobMatches)

\* lines 428-430: user_files[username].append(file_path), creating the entry
\* at the end of the dict when the username is new
AddFile(groups, username, file_path) ==
    IF \E i \in 1..Len(groups) : groups[i].username = username
    THEN [i \in 1..Len(groups) |->
             IF groups[i].username = username
             THEN [username |-> username, files |-> Append(groups[i].files, file_path)]
             ELSE groups[i]]
    ELSE Append(groups, [username |-> username, files |-> <<file_path>>])

RECURSIVE GroupFiles(_, _)
\* lines 421-432: the loop over ichat_files; acc holds user_files and the warnings logged
GroupFiles(ichat_files, acc) ==
    IF ichat_files = <<>> THEN acc
    ELSE LET filename == Head(ichat_files)
             match == FilenameMatch(filename)
         IN IF match.matched
            THEN GroupFiles(Tail(ichat_files),
                            [user_files |-> AddFile(acc.user_files, match.username, filename),
                             logs |-> acc.logs])
            ELSE GroupFiles(Tail(ichat_files),
                            [user_files |-> acc.user_files,
                             logs |-> Append(acc.logs,
                                 LogLine("Warning: Skipping file with unexpected name format",
                                         filename))])

CountLine(line, count) == [line |-> line, count |-> count]

\* the except clause of start_processing, lines 480-483
ErrorLines(exc) ==
    << LogLine("AN ERROR OCCURRED", <<exc>>), LogLine("str(e)", <<exc>>),
       LogLine("traceback", <<exc>>) >>

(***************************************************************************)
(* Inputs                                                                  *)
(***************************************************************************)
ON_ == <<" ", "o", "n", " ">>
AT_ == <<" ", "a", "t", " ">>
STAMP_A == ON_ \o <<"2", "0", "0", "9", "-", "0", "4", "-", "0", "1">> \o AT_
               \o <<"1", "3", ".", "0", "2">>
STAMP_B == ON_ \o <<"2", "0", "1", "0", "-", "0", "1", "-", "0", "1">> \o AT_
               \o <<"0", "9", ".", "0", "0">>
ALICE == <<"A", "l", "i", "c", "e">>
BOB_SMITH == <<"B", "o", "b", " ", "S", "m", "i", "t", "h">>

F_ALICE_A == ALICE \o STAMP_A \o DOT_ICHAT           \* "Alice on 2009-04-01 at 13.02.ichat"
F_ALICE_B == ALICE \o STAMP_B \o DOT_ICHAT           \* "Alice on 2010-01-01 at 09.00.ichat"
F_BOB == BOB_SMITH \o STAMP_B \o DOT_ICHAT           \* "Bob Smith on 2010-01-01 at 09.00.ichat"
F_NESTED == ALICE \o STAMP_A \o STAMP_B \o DOT_ICHAT \* the display name holds a stamp itself
F_RANDOM == <<"r", "a", "n", "d", "o", "m", ".", "t", "x", "t">>   \* "random.txt"
F_NOTES == <<"n", "o", "t", "e", "s">> \o DOT_ICHAT  \* "notes.ichat"
F_HIDDEN == <<".">> \o F_BOB                          \* a hidden file with a matching name

DirNames == {F_ALICE_A, F_ALICE_B, F_BOB, F_NESTED, F_RANDOM, F_NOTES, F_HIDDEN}

\* archives whose display names hold characters that sanitize_filename replaces
\* ('/' cannot occur in os.path.basename of a path), and one that holds none
A_COLON_B == <<"a", ":", "b">>
A_QUERY_B == <<"a", "?", "b">>
A_BACKSLASH_B == <<"a", "\\", "b">>
A_UNDERSCORE_B == <<"a", "_", "b">>
F_COLON == A_COLON_B \o STAMP_B \o DOT_ICHAT            \* "a:b on 2010-01-01 at 09.00.ichat"
F_QUERY == A_QUERY_B \o STAMP_B \o DOT_ICHAT            \* "a?b on 2010-01-01 at 09.00.ichat"
F_BACKSLASH == A_BACKSLASH_B \o STAMP_A \o DOT_ICHAT    \* "a\b on 2009-04-01 at 13.02.ichat"
F_UNDERSCORE == A_UNDERSCORE_B \o STAMP_A \o DOT_ICHAT  \* "a_b on 2009-04-01 at 13.02.ichat"

NameDirNames == {F_COLON, F_QUERY, F_BACKSLASH, F_UNDERSCORE, F_BOB}

\* the sequences over S of length at most n
SeqsUpTo(S, n) == UNION {[1..k -> S] : k \in 0..n}

\* the directory listings: at most n distinct names, in any order
Listings(names, n) ==
    {l \in SeqsUpTo(names, n) : \A i, j \in 1..Len(l) : i # j => l[i] # l[j]}

\* message records of the archives: no "Time", a date-time "Time", a text "Time"
M_NOTIME == PyDict(<<>>)
M_T1 == PyDict([Time |-> PyDatetime(1)])
M_T2 == PyDict([Time |-> PyDatetime(2)])
M_TEXT == PyDict([Time |-> PyStr(<<"a">>)])
PipelineRecords == {M_NOTIME, M_T1, M_T2, M_TEXT}
OrderRecords == {M_T1, M_TEXT}

\* a decoded archive with the message list msgs at [1][2]
MessageTree(msgs) ==
    Decoded(PyList(<<PyNone, PyList(<<PyNone, PyNone, PyList(msgs)>>)>>))

T_ROOT_MAPPING == Decoded(PyDict([root |-> PyList(<<>>)]))
T_ROOT_SHORT == Decoded(PyList(<<PyNone>>))
T_1_NONE == Decoded(PyList(<<PyNone, PyNone>>))
T_1_MAPPING == Decoded(PyList(<<PyNone, PyDict([k |-> PyNone])>>))
T_1_SHORT == Decoded(PyList(<<PyNone, PyList(<<PyNone>>)>>))
T_2_TEXT == Decoded(PyList(<<PyNone, PyList(<<PyNone, PyNone, PyStr(<<"a">>)>>)>>))

DecodeOutcomes ==
    {DecodeFailed, T_ROOT_MAPPING, T_ROOT_SHORT, T_1_NONE, T_1_MAPPING, T_1_SHORT, T_2_TEXT}
    \cup {MessageTree(m) : m \in SeqsUpTo(PipelineRecords, MaxMsgs)}

OrderOutcomes ==
    {DecodeFailed, T_ROOT_MAPPING, T_ROOT_SHORT, T_1_NONE, T_1_MAPPING, T_1_SHORT, T_2_TEXT}
    \cup {MessageTree(m) : m \in SeqsUpTo(OrderRecords, MaxOrderMsgs)}

\* what deserialize_plist may give for an archive of a directory of that kind
ArchiveOutcomes(kind) == IF kind = "few" THEN OrderOutcomes ELSE DecodeOutcomes

(***************************************************************************)
(* start_processing                                                        *)
(***************************************************************************)
IdleSniffer == data_blob = PyNone /\ embedded = <<>>
IdleRenderer == render_in = [username |-> <<>>, messages |-> <<>>]

InitRun ==
    /\ pc = "start"
    /\ user_files = <<>>
    /\ ui = 0
    /\ fi = 0
    /\ conv = <<>>
    /\ handed = <<>>
    /\ fs = <<>>
    /\ log = <<>>
    /\ processed_count = 0

Init ==
    /\ listing \in Listings(DirNames, MaxFiles)
    /\ archives = "any"
    /\ InitRun
    /\ IdleSniffer
    /\ IdleRenderer

InitOrder ==
    /\ listing \in Listings(DirNames, MaxFiles)
    /\ archives = "few"
    /\ InitRun
    /\ IdleSniffer
    /\ IdleRenderer

\* a source directory whose archives are named after participants with
\* characters that are illegal in file names
InitNames ==
    /\ listing \in Listings(NameDirNames, MaxFiles)
    /\ archives = "few"
    /\ InitRun
    /\ IdleSniffer
    /\ IdleRenderer

Inputs == <<listing, archives, data_blob, embedded, render_in>>

\* lines 380-444: from the click to the top of the loop over user_files.  The
\* Start button is enabled only once a source directory is selected.
StartProcessing ==
    /\ pc = "start"
    /\ \E makedirs_ok \in BOOLEAN :
          LET ichat_files == Glob(listing)
              grouped == GroupFiles(ichat_files, [user_files |-> <<>>, logs |-> <<>>])
              started == << LogLine("Starting Conversion Process", <<>>) >>
              found == started \o << LogLine("HTML files will be saved to", <<>>),
                                     CountLine("Found total .ichat files", Len(ichat_files)) >>
                               \o grouped.logs
                               \o << CountLine("Found unique users", Len(grouped.user_files)) >>
          IN IF ~makedirs_ok
             THEN /\ log' = started \o ErrorLines("OSError")
                  /\ pc' = "returned"
                  /\ user_files' = user_files
             ELSE IF ichat_files = <<>>
             THEN /\ log' = started \o << LogLine("HTML files will be saved to", <<>>),
                                          LogLine("No .ichat files found", <<>>) >>
                  /\ pc' = "returned"
                  /\ user_files' = user_files
             ELSE IF Len(grouped.user_files) = 0
             THEN /\ log' = found \o << LogLine("No users found to process", <<>>) >>
                  /\ pc' = "returned"
                  /\ user_files' = grouped.user_files
             ELSE /\ log' = found
                  /\ pc' = "loop"
                  /\ user_files' = grouped.user_files
    /\ UNCHANGED <<ui, fi, conv, handed, fs, processed_count, Inputs>>

\* lines 446-449: the next participant of user_files.items(); a new list
\* all_messages_for_user is created
NextUser ==
    /\ pc = "loop"
    /\ ui < Len(user_files)
    /\ ui' = ui + 1
    /\ fi' = 1
    /\ conv' = Append(conv, <<>>)
    /\ log' = Append(log, LogLine("Processing user", user_files[ui + 1].username))
    /\ pc' = "files"
    /\ UNCHANGED <<user_files, handed, fs, processed_count, Inputs>>

\* lines 451-452: all_messages_for_user.extend(extract_messages_from_file(...))
\* for the next file of the participant; an exception that leaves
\* extract_messages_from_file reaches the except clause of start_processing
ReadFile ==
    /\ pc = "files"
    /\ fi <= Len(user_files[ui].files)
    /\ \E outcome \in ArchiveOutcomes(archives) :
          LET r == extract_messages_from_file(user_files[ui].files[fi], outcome)
          IN IF r.exc # ""
             THEN /\ log' = log \o r.logs \o ErrorLines(r.exc)
                  /\ pc' = "returned"
                  /\ UNCHANGED <<conv, fi>>
             ELSE /\ log' = log \o r.logs
                  /\ conv' = [conv EXCEPT ![ui] = @ \o r.messages]
                  /\ fi' = fi + 1
                  /\ pc' = pc
    /\ UNCHANGED <<user_files, ui, handed, fs, processed_count, Inputs>>

\* lines 454-473: after the participant's last file: skip a participant
\* without messages, else sort the list in place and render it
FinishUser ==
    /\ pc = "files"
    /\ fi > Len(user_files[ui].files)
    /\ LET username == user_files[ui].username
       IN IF conv[ui] = <<>>
          THEN /\ log' = Append(log, LogLine("No messages found. Skipping", username))
               /\ UNCHANGED <<conv, handed, fs>>
          ELSE \E open_ok \in BOOLEAN :
                  LET sorted == ListSort(conv[ui])
                      warning == IF sorted.exc # ""
                                 THEN << LogLine("Warning: Could not sort messages", username) >>
                                 ELSE <<>>
                      w == write_html_file(username, sorted.list, open_ok)
                  IN /\ conv' = [conv EXCEPT ![ui] = sorted.list]
                     /\ handed' = Append(handed, [username |-> username,
                                                  concatenated |-> conv[ui],
                                                  sort_exc |-> sorted.exc,
                                                  messages |-> sorted.list,
                                                  written |-> open_ok])
                     /\ fs' = FsAfter(fs, w)
                     /\ log' = log \o warning \o w.logs
    /\ processed_count' = processed_count + 1
    /\ pc' = "loop"
    /\ UNCHANGED <<user_files, ui, fi, Inputs>>

\* the completion lines run at the end of an iteration instead of after the loop
Complete_InsideLoop ==
    /\ pc = "loop"
    /\ log' = Append(log, LogLine("All processing complete", <<>>))
    /\ pc' = "returned"
    /\ UNCHANGED <<user_files, ui, fi, conv, handed, fs, processed_count, Inputs>>

\* lines 475-478: after the last participant
Complete ==
    /\ pc = "loop"
    /\ ui = Len(user_files)
    /\ log' = Append(log, LogLine("All processing complete", <<>>))
    /\ pc' = "returned"
    /\ UNCHANGED <<user_files, ui, fi, conv, handed, fs, processed_count, Inputs>>

Next == StartProcessing \/ NextUser \/ ReadFile \/ FinishUser \/ Complete

Spec == Init /\ [][Next]_vars

\* the same run over archives of fewer kinds
SpecOrder == InitOrder /\ [][Next]_vars

\* the same run over a directory of participants with illegal characters
SpecNames == InitNames /\ [][Next]_vars

(***************************************************************************)
(* The sniffer on its own: one NS.data value, sniffed as write_html_file   *)
(* does for one attribute.                                                 *)
(***************************************************************************)
Chunks == {JPG_SIG, PNG_SIG, GIF_SIG, <<0>>, <<255, 216>>, <<71, 73, 70>>}

RECURSIVE Blobs(_)
\* the concatenations of at most n chunks
Blobs(n) ==
    IF n = 0 THEN {<<>>}
    ELSE Blobs(n - 1) \cup {b \o c : b \in Blobs(n - 1), c \in Chunks}

InitSniff ==
    /\ data_blob \in {PyBytes(b) : b \in Blobs(MaxChunks)} \cup {PyNone, PyStr(<<"a">>)}
    /\ embedded = <<>>
    /\ pc = "sniff"
    /\ listing = <<>>
    /\ archives = "any"
    /\ user_files = <<>>
    /\ ui = 0
    /\ fi = 0
    /\ conv = <<>>
    /\ handed = <<>>
    /\ fs = <<>>
    /\ log = <<>>
    /\ processed_count = 0
    /\ IdleRenderer

\* lines 227-231 on data_blob
SniffAttachment ==
    /\ pc = "sniff"
    /\ embedded' = SniffImage(data_blob)
    /\ pc' = "sniffed"
    /\ UNCHANGED <<listing, user_files, ui, fi, conv, handed, fs, log, processed_count,
                   data_blob, render_in, archives>>

SpecSniff == InitSniff /\ [][SniffAttachment]_vars

(***************************************************************************)
(* The renderer on its own: one call of write_html_file.                   *)
(***************************************************************************)
BOB == <<"b", "o", "b">>
PNG_IMAGE == PNG_SIG \o <<0>>
GIF_IN_NOISE == <<0>> \o GIF_SIG \o <<0>>

\* an attribute mapping whose key chain ends in data
AttrWith(data) ==
    PyDict([NSAttachment |-> PyDict([NSFileWrapper |->
        PyDict([NSFileWrapperData |-> PyDict("NS.data" :> data)])])])

\* a message record with the text and the attributes given
Record(text, attributes) ==
    PyDict([Sender |-> PyDict([ID |-> PyStr(BOB)]),
            Time |-> PyDatetime(1),
            MessageText |-> PyDict([NSString |-> PyStr(text), NSAttributes |-> attributes])])

HI == <<"H", "i", OBJECT_REPLACEMENT>>

R_EMPTY == PyDict(<<>>)                                      \* no entry at all
R_FULL == Record(HI, PyList(<<AttrWith(PyBytes(PNG_IMAGE))>>))
R_ONE_ATTR == Record(HI, AttrWith(PyBytes(GIF_IN_NOISE)))     \* a single mapping, not a list
R_BLANK == Record(<<" ">>, PyList(<<>>))                     \* blank text, no attachment
R_NO_ID == PyDict([Sender |-> PyDict(<<>>), Time |-> PyStr(<<"a">>)])
R_SENDER_TEXT == PyDict([Sender |-> PyStr(BOB)])
R_TEXT_CONTENT == PyDict([MessageText |-> PyStr(HI)])        \* "MessageText" is not a mapping
\* chain breaks, each followed by an intact attribute
R_KEY_MISSING == Record(HI, PyList(<<PyDict([NSAttachment |-> PyDict(<<>>)]),
                                     AttrWith(PyBytes(PNG_IMAGE))>>))
R_DATA_TEXT == Record(HI, PyList(<<AttrWith(PyStr(BOB)), AttrWith(PyBytes(PNG_IMAGE))>>))
R_LEVEL_TEXT == Record(HI, PyList(<<PyDict([NSAttachment |-> PyStr(BOB)]),
                                    AttrWith(PyBytes(PNG_IMAGE))>>))
R_ATTR_TEXT == Record(HI, PyList(<<PyStr(BOB), AttrWith(PyBytes(PNG_IMAGE))>>))

RenderRecords ==
    {R_EMPTY, R_FULL, R_ONE_ATTR, R_BLANK, R_NO_ID, R_SENDER_TEXT, R_TEXT_CONTENT,
     R_KEY_MISSING, R_DATA_TEXT, R_LEVEL_TEXT, R_ATTR_TEXT}

InitRender ==
    /\ render_in \in [username : {ALICE},
                      messages : SeqsUpTo(RenderRecords, MaxRenderMsgs)]
    /\ pc = "render"
    /\ listing = <<>>
    /\ archives = "any"
    /\ user_files = <<>>
    /\ ui = 0
    /\ fi = 0
    /\ conv = <<>>
    /\ handed = <<>>
    /\ fs = <<>>
    /\ log = <<>>
    /\ processed_count = 0
    /\ IdleSniffer

\* write_html_file(username, sorted_messages, output_dir, logger_func)
RenderCall ==
    /\ pc = "render"
    /\ \E open_ok \in BOOLEAN :
          LET w == write_html_file(render_in.username, render_in.messages, open_ok)
          IN /\ fs' = FsAfter(fs, w)
             /\ log' = log \o w.logs
    /\ pc' = "rendered"
    /\ UNCHANGED <<listing, user_files, ui, fi, conv, handed, processed_count,
                   data_blob, embedded, render_in, archives>>

SpecRender == InitRender /\ [][RenderCall]_vars

(***************************************************************************)
(* Properties                                                              *)
(***************************************************************************)
\* some logged line is `line` about `about`
Logged(line, about) == \E i \in 1..Len(log) : log[i].line = line /\ log[i].about = about

\* positions of the lines `line` in the log
LinesAt(line) == {i \in 1..Len(log) : log[i].line = line}

\* participant i was skipped for having no messages, or write_html_file was called for it
ParticipantProcessed(i) ==
    \/ Logged("No messages found. Skipping", user_files[i].username)
    \/ \E k \in 1..Len(handed) : handed[k].username = user_files[i].username

\* C1: a failure in one file or one participant does not abort the run for
\* the others: when start_processing returns after grouping, every participant
\* other than the one it was processing last was either skipped for having no
\* messages or had its document write attempted.
C1_FailureNeverAbortsRun ==
    (pc = "returned" /\ LinesAt("Found unique users") # {}) =>
        \A i \in 1..Len(user_files) : i # ui => ParticipantProcessed(i)

\* the timestamp of a record: its "Time" entry if that is a date-time value,
\* else absent, ordered as the minimum instant
Timestamp(m) ==
    LET time == IF HasGet(m) THEN Get(m, "Time", PyNone) ELSE PyNone
    IN IF IsInstance(time, "datetime") THEN time.n ELSE DATETIME_MIN.n

\* m put after the last element of the sorted list whose timestamp is not later
InsertByTimestamp(sorted, m) ==
    LET k == Cardinality({i \in 1..Len(sorted) : Timestamp(sorted[i]) <= Timestamp(m)})
    IN SubSeq(sorted, 1, k) \o <<m>> \o SubSeq(sorted, k + 1, Len(sorted))

RECURSIVE StableSortByTimestamp(_)
\* msgs in ascending timestamp order, ties in their order in msgs
StableSortByTimestamp(msgs) ==
    IF msgs = <<>> THEN <<>>
    ELSE InsertByTimestamp(StableSortByTimestamp(SubSeq(msgs, 1, Len(msgs) - 1)),
                           msgs[Len(msgs)])

\* C2: the message list handed to the renderer for a participant is the
\* concatenation of its files' messages, stable-sorted by timestamp ascending
\* with an absent timestamp ordered as the minimum instant.
C2_HandedListIsStableSorted ==
    \A k \in 1..Len(handed) :
        handed[k].messages = StableSortByTimestamp(handed[k].concatenated)

MimeOf(ext) ==
    CASE ext = ".jpg" -> "image/jpeg" [] ext = ".png" -> "image/png" [] ext = ".gif" -> "image/gif"

\* the registered type k has the signature that occurs earliest in blob b
EarliestSignature(b, k) ==
    /\ Find(b, IMAGE_SIGNATURES[k].signature) # -1
    /\ \A j \in 1..Len(IMAGE_SIGNATURES) :
          j # k => \/ Find(b, IMAGE_SIGNATURES[j].signature) = -1
                   \/ Find(b, IMAGE_SIGNATURES[j].signature)
                         > Find(b, IMAGE_SIGNATURES[k].signature)

\* C3: for a blob whose first signature is that of the registered type T,
\* whatever follows it, the sniffer gives one attachment whose bytes start
\* with the signature of T and whose mime type is that of T.
C3_SnifferKeepsFirstSignature ==
    (pc = "sniffed" /\ IsInstance(data_blob, "bytes")) =>
        \A k \in 1..Len(IMAGE_SIGNATURES) :
            EarliestSignature(data_blob.b, k) =>
                /\ Len(embedded) = 1
                /\ StartsWith(embedded[1].bytes, IMAGE_SIGNATURES[k].signature)
                /\ embedded[1].mime_type = MimeOf(IMAGE_SIGNATURES[k].ext)

\* the message blocks of a document: block k runs from the k-th
\* '<div class="message">' to the next one (or to the footer)
BlockStarts(doc) == {i \in 1..Len(doc) : doc[i].w = "message"}
NumBlocks(doc) == Cardinality(BlockStarts(doc))
NthStart(doc, k) ==
    CHOOSE i \in BlockStarts(doc) : Cardinality({j \in BlockStarts(doc) : j <= i}) = k
BodyEnd(doc) == IF doc[Len(doc)].w = "footer" THEN Len(doc) - 1 ELSE Len(doc)
Block(doc, k) ==
    SubSeq(doc, NthStart(doc, k),
           IF k < NumBlocks(doc) THEN NthStart(doc, k + 1) - 1 ELSE BodyEnd(doc))
BlockComplete(doc, k) == Block(doc, k)[Len(Block(doc, k))].w = "end"
HasHeader(doc, k) == Len(Block(doc, k)) >= 2 /\ Block(doc, k)[2].w = "header"
Elements(doc, k, w) == {i \in 1..Len(Block(doc, k)) : Block(doc, k)[i].w = w}

\* the renderer came to message i: every message before it has a complete block
Reached(doc, i) == NumBlocks(doc) >= i - 1 /\ \A j \in 1..(i - 1) : BlockComplete(doc, j)

\* the renderer on its own has returned and left a document
Rendered == pc = "rendered" /\ SavePath(render_in.username) \in DOMAIN fs
RenderedDoc == fs[SavePath(render_in.username)]

\* C4: a record that lacks "Sender", "Time" or "MessageText" entirely is
\* rendered without an exception, with the defaults: sender "Unknown Sender",
\* "No Timestamp", no text paragraph and no image.
C4_MissingEntriesGiveDefaults ==
    Rendered =>
        \A i \in 1..Len(render_in.messages) :
            LET m == render_in.messages[i]
            IN (IsInstance(m, "dict") /\ Reached(RenderedDoc, i)) =>
                  /\ "Sender" \notin DOMAIN m.d =>
                        /\ NumBlocks(RenderedDoc) >= i
                        /\ HasHeader(RenderedDoc, i)
                        /\ Block(RenderedDoc, i)[2].sender = UNKNOWN_SENDER
                  /\ ("Time" \notin DOMAIN m.d /\ "Sender" \in DOMAIN m.d) =>
                        /\ NumBlocks(RenderedDoc) >= i
                        /\ HasHeader(RenderedDoc, i)
                        /\ Block(RenderedDoc, i)[2].time_str = NO_TIMESTAMP
                  /\ ("MessageText" \notin DOMAIN m.d /\ "Sender" \in DOMAIN m.d) =>
                        /\ NumBlocks(RenderedDoc) >= i
                        /\ BlockComplete(RenderedDoc, i)
                        /\ Elements(RenderedDoc, i, "p") = {}
                        /\ Elements(RenderedDoc, i, "img") = {}

\* descend by key: the entry, or nothing when v is no mapping or has no such key
Descend(v, key) == IF v.t = "dict" /\ key \in DOMAIN v.d THEN v.d[key] ELSE PyNone

\* the value the key chain of one attribute entry resolves to, nothing on any break
ChainData(attr) ==
    Descend(Descend(Descend(Descend(attr, "NSAttachment"), "NSFileWrapper"),
                    "NSFileWrapperData"), "NS.data")

\* the attribute entries of a record whose "MessageText" is a mapping
AttributeEntries(m) ==
    LET attributes == Descend(m.d["MessageText"], "NSAttributes")
    IN IF attributes.t = "dict" THEN <<attributes>>
       ELSE IF attributes.t = "list" THEN attributes.l
       ELSE <<>>

\* a record that is sound but for the key chains of its attribute entries
SoundButChains(m) ==
    /\ IsInstance(m, "dict")
    /\ "Sender" \in DOMAIN m.d /\ IsInstance(m.d["Sender"], "dict")
    /\ IsInstance(Descend(m.d["Sender"], "ID"), "str")
    /\ "MessageText" \in DOMAIN m.d /\ IsInstance(m.d["MessageText"], "dict")
    /\ IsInstance(Descend(m.d["MessageText"], "NSString"), "str")

\* C5: a break in the key chain of an attribute entry (a missing key or a
\* value of the wrong variant at any level, the entry itself included) yields
\* no attachment for that entry and no error: the message block is completed
\* with the images of the intact entries and the next message is rendered.
C5_ChainBreakYieldsNoAttachment ==
    Rendered =>
        \A i \in 1..Len(render_in.messages) :
            LET m == render_in.messages[i]
            IN (SoundButChains(m) /\ Reached(RenderedDoc, i)) =>
                  /\ NumBlocks(RenderedDoc) >= i
                  /\ BlockComplete(RenderedDoc, i)
                  /\ Cardinality(Elements(RenderedDoc, i, "img"))
                        = Cardinality({a \in 1..Len(AttributeEntries(m)) :
                                          SniffImage(ChainData(AttributeEntries(m)[a])) # <<>>})
                  /\ i < Len(render_in.messages) => NumBlocks(RenderedDoc) >= i + 1

\* the header a message's timestamp calls for
ExpectedTimeStr(m) ==
    LET time == Descend(m, "Time")
    IN IF IsInstance(time, "datetime") THEN Strftime(time.n) ELSE NO_TIMESTAMP

\* C6: the written document holds exactly one message block per input
\* message, in input order, each with its content block, also for a message
\* without text and attachments.
C6_OneBlockPerMessage ==
    Rendered =>
        /\ NumBlocks(RenderedDoc) = Len(render_in.messages)
        /\ \A i \in 1..Len(render_in.messages) :
              /\ BlockComplete(RenderedDoc, i)
              /\ HasHeader(RenderedDoc, i)
              /\ Block(RenderedDoc, i)[2].time_str = ExpectedTimeStr(render_in.messages[i])
              /\ Elements(RenderedDoc, i, "content") # {}

\* C7: when the sort of a participant's merged messages fails, the failure
\* is logged and the list handed to the renderer is the concatenation in its
\* original order.
C7_SortFailureKeepsOrder ==
    \A k \in 1..Len(handed) :
        handed[k].sort_exc # "" =>
            /\ Logged("Warning: Could not sort messages", handed[k].username)
            /\ handed[k].messages = handed[k].concatenated

\* the record has a "Time" entry that is not a date-time value
HasOtherTime(m) ==
    IsInstance(m, "dict") /\ "Time" \in DOMAIN m.d /\ ~IsInstance(m.d["Time"], "datetime")

\* the record with such a "Time" entry removed
WithoutOtherTime(m) ==
    IF HasOtherTime(m) THEN PyDict([key \in DOMAIN m.d \ {"Time"} |-> m.d[key]]) ELSE m

WithoutOtherTimes(msgs) == [i \in 1..Len(msgs) |-> WithoutOtherTime(msgs[i])]

\* C10: a record whose "Time" entry is not a date-time value is treated like
\* a record without "Time": the sort does not fail and orders the list as if
\* those entries were absent, and the record is rendered with "No Timestamp".
C10_OtherTimeIsAbsent ==
    \A k \in 1..Len(handed) :
        (\E i \in 1..Len(handed[k].concatenated) : HasOtherTime(handed[k].concatenated[i])) =>
            /\ handed[k].sort_exc = ""
            /\ WithoutOtherTimes(handed[k].messages)
                  = ListSort(WithoutOtherTimes(handed[k].concatenated)).list
            /\ SavePath(handed[k].username) \in DOMAIN fs =>
                  LET doc == fs[SavePath(handed[k].username)]
                  IN \A i \in 1..NumBlocks(doc) :
                        (HasOtherTime(handed[k].messages[i]) /\ HasHeader(doc, i)) =>
                            Block(doc, i)[2].time_str = NO_TIMESTAMP

\* the names of DirNames that follow the archive naming convention, and the
\* display name each carries
FollowsConvention(f) == f \in {F_ALICE_A, F_ALICE_B, F_BOB, F_NESTED, F_HIDDEN}
DisplayName(f) ==
    CASE f = F_ALICE_A -> ALICE
      [] f = F_ALICE_B -> ALICE
      [] f = F_BOB -> BOB_SMITH
      [] f = F_NESTED -> ALICE \o STAMP_A
      [] f = F_HIDDEN -> <<".">> \o BOB_SMITH

\* the names of DirNames that end in ".ichat" and do not start with a dot
ListedByGlob(f) == f \in {F_ALICE_A, F_ALICE_B, F_BOB, F_NESTED, F_NOTES}

FilesOf(i) == {user_files[i].files[k] : k \in 1..Len(user_files[i].files)}
GroupedUnder(f, name) ==
    /\ \E i \in 1..Len(user_files) : user_files[i].username = name /\ f \in FilesOf(i)
    /\ \A i \in 1..Len(user_files) : f \in FilesOf(i) => user_files[i].username = name
InNoGroup(f) == \A i \in 1..Len(user_files) : f \notin FilesOf(i)
SkipLogged(f) == Logged("Warning: Skipping file with unexpected name format", f)

\* where the first file of participant i stands in the directory listing
FirstAppearance(i) == Min({p \in 1..Len(listing) : listing[p] \in FilesOf(i)})

\* the participants stand in user_files, and are visited, in order of first appearance
InFirstAppearanceOrder ==
    /\ \A i \in 1..Len(user_files) : FilesOf(i) # {}
    /\ \A i, j \in 1..Len(user_files) :
          /\ i < j => FirstAppearance(i) < FirstAppearance(j)
          /\ i # j => user_files[i].username # user_files[j].username
    /\ LET visits == SelectSeq(log, LAMBDA r : r.line = "Processing user")
       IN \A k \in 1..Len(visits) : visits[k].about = user_files[k].username

\* the grouping loop of start_processing has run
GroupingDone == LinesAt("Found unique users") # {}

FilesInOrder == Flatten([i \in 1..Len(user_files) |-> user_files[i].files])

\* the files read so far, from the "Reading" lines
FilesRead ==
    LET reads == SelectSeq(log, LAMBDA r : r.line = "Reading")
    IN [k \in 1..Len(reads) |-> reads[k].about]

LinesAbout(line, about) == {p \in 1..Len(log) : log[p].line = line /\ log[p].about = about}

\* the lines that end a participant: document saved, write failed, or skipped
OutcomeLines(username) ==
    LinesAbout("Successfully saved", SavePath(username))
        \cup LinesAbout("FAILED to write HTML", SavePath(username))
        \cup LinesAbout("No messages found. Skipping", username)

\* C9: the files are read one after the other in participant order; a
\* participant is sorted and rendered once, after all its files were read,
\* and its list is as rendered ever after; completion is reported last, when
\* every participant's document was saved, failed, or the participant skipped.
C9_EventsInOrder ==
    /\ Len(FilesRead) <= Len(FilesInOrder)
    /\ FilesRead = SubSeq(FilesInOrder, 1, Len(FilesRead))
    /\ \A i \in 1..Len(user_files) :
          LET username == user_files[i].username
              renders == LinesAbout("Rendering HTML", username)
              calls == {k \in 1..Len(handed) : handed[k].username = username}
          IN /\ Cardinality(renders) <= 1
             /\ Cardinality(calls) = Cardinality(renders)
             /\ \A p \in renders \cup LinesAbout("Warning: Could not sort messages", username) :
                   \A f \in FilesOf(i) :
                      /\ \E q \in LinesAbout("Reading", f) : q < p
                      /\ \A q \in LinesAbout("Reading", f) : q < p
             /\ \A p \in renders :
                   \A q \in LinesAbout("Warning: Could not sort messages", username) : q < p
             /\ \A k \in calls : i <= Len(conv) /\ conv[i] = handed[k].messages
    /\ \A p \in LinesAt("All processing complete") :
          /\ p = Len(log)
          /\ pc = "returned"
          /\ \A i \in 1..Len(user_files) :
                \E q \in OutcomeLines(user_files[i].username) : q < p

\* a completed run in which a participant with two files was rendered and saved
C9_Witness ==
    /\ LinesAt("All processing complete") # {}
    /\ \E i \in 1..Len(user_files) :
          /\ Len(user_files[i].files) = 2
          /\ Logged("Successfully saved", SavePath(user_files[i].username))

\* the name differs from the display name exactly in that each of
\* \ / * ? : " < > | is replaced with _
IsSanitized(name, display) ==
    /\ Len(name) = Len(display)
    /\ \A i \in 1..Len(display) :
          name[i] = IF display[i] \in {"\\", "/", "*", "?", ":", "\"", "<", ">", "|"}
                    THEN "_" ELSE display[i]

\* the output path of a participant: <dest>/<sanitized display-name>.html
IsOutputPath(path, display) ==
    /\ Len(path) = Len(display) + 5
    /\ IsSanitized(SubSeq(path, 1, Len(display)), display)
    /\ SubSeq(path, Len(display) + 1, Len(path)) = <<".", "h", "t", "m", "l">>

\* the file at that path is the document written for that participant
HoldsDocumentOf(path, display) ==
    /\ path \in DOMAIN fs
    /\ fs[path] # <<>>
    /\ fs[path][1] = [w |-> "preamble", title |-> HtmlEscape(display)]

\* C11: within one run each participant's document is written to
\* <dest>/<sanitized display-name>.html, where sanitizing replaces every one of
\* \ / * ? : " < > | with _ (a/b:c gives a_b_c); two distinct participants are
\* never written to the same output path, so no participant's document
\* overwrites another's and the run leaves one HTML file per rendered
\* participant.
C11_OnePathPerParticipant ==
    /\ sanitize_filename(<<"a", "/", "b", ":", "c">>) = <<"a", "_", "b", "_", "c">>
    /\ \A k \in 1..Len(handed) :
          /\ IsOutputPath(SavePath(handed[k].username), handed[k].username)
          /\ \A p \in DOMAIN fs :
                fs[p][1].title = HtmlEscape(handed[k].username)
                   => p = SavePath(handed[k].username)
    /\ \A k, l \in 1..Len(handed) :
          (k # l /\ handed[k].written /\ handed[l].written)
             => SavePath(handed[k].username) # SavePath(handed[l].username)
    /\ \A k \in 1..Len(handed) :
          handed[k].written
             => HoldsDocumentOf(SavePath(handed[k].username), handed[k].username)
    /\ Cardinality(DOMAIN fs) = Cardinality({k \in 1..Len(handed) : handed[k].written})

====
